---- MODULE Spec2Model ----
(***************************************************************************)
(* Model of @khni/error-handler: the error taxonomy, the HttpError         *)
(* serializer, the three concrete handling strategies, the ErrorHandler    *)
(* dispatcher and the createErrHandlerMiddleware factory.                  *)
(*                                                                         *)
(* JavaScript values are records tagged by `cls` (the constructor that     *)
(* made them, or the primitive type).  The DOMAIN of a record is the set   *)
(* of properties the object has; the token "undefined" is the value of a   *)
(* property that holds undefined.  A `cause` is a reference into Heap      *)
(* (0 is undefined), so that cause chains may be shared, long or cyclic.   *)
(***************************************************************************)
EXTENDS Integers, Sequences, FiniteSets, TLC

\* ---------------------------------------------------------------- bounds
\* Number of requests (each with its own error and response sink).
NumRequests == 2
\* Longest list of mock strategies given to the dispatcher.
MaxStrategies == 3
\* Number of links of the longest cause chain built (the serializer's test
\* builds 150).
MaxChain == 150
\* Longest list of issues of a raw validation error, and of entries of a
\* serializer's result.
MaxEntries == 2

\* HttpErrorSerializer.flattenErrorCauses: const MAX_CAUSE_DEPTH = 100
MAX_CAUSE_DEPTH == 100

Requests == 1..NumRequests

Undefined == "undefined"
LogLevel == {"debug", "info", "warn", "error"}

\* ------------------------------------------------------------ the classes
\* x instanceof Error
InstanceOfError(x) ==
  x.cls \in {"Error", "CustomError", "HttpError", "MappedHttpError",
             "InputValidationError"}

\* x instanceof HttpError (MappedHttpError extends HttpError)
InstanceOfHttpError(x) == x.cls \in {"HttpError", "MappedHttpError"}

\* x instanceof InputValidationError
InstanceOfInputValidationError(x) == x.cls = "InputValidationError"

\* Reading property f of value x: a TypeError on null and undefined,
\* undefined when the value has no such property.
ReadThrows(x) == x.cls \in {"null", "undefined"}
Get(x, f) == IF f \in DOMAIN x THEN x[f] ELSE Undefined

\* new (class extends HttpError { statusCode = ... })(params)
HttpError(params, statusCode) ==
  [cls |-> "HttpError",
   name |-> params.name,
   message |-> params.message,
   meta |-> params.meta,
   code |-> params.code,
   logLevel |-> params.logLevel,
   cause |-> params.cause,
   responseMessage |-> params.responseMessage,
   stack |-> params.name \o ": " \o params.message \o " at app.js:1",
   statusCode |-> statusCode]

\* Mutant: field: err.field || "unknown"
NormalizeEntry_Or(entry) ==
  [field |-> IF "field" \in DOMAIN entry /\ entry.field \notin {Undefined, ""}
             THEN entry.field ELSE "unknown",
   messages |-> entry.messages]

\* errors.map((err) => ({ field: err.field ?? "unknown", messages: err.messages }))
NormalizeEntry(entry) ==
  [field |-> IF "field" \in DOMAIN entry /\ entry.field # Undefined
             THEN entry.field ELSE "unknown",
   messages |-> entry.messages]

\* new InputValidationError(rawError, serializer), serialized = serializer(rawError)
InputValidationError(serialized) ==
  [cls |-> "InputValidationError",
   name |-> serialized.name,
   message |-> serialized.name,
   stack |-> serialized.name \o ": " \o serialized.name \o " at app.js:2",
   errors |-> [i \in 1..Len(serialized.errors) |->
                 NormalizeEntry(serialized.errors[i])]]

\* InputValidationError.toJSON
toJSON(this) == [name |-> this.name, errors |-> this.errors]

\* this.errors.find((error) => error.field === fieldName), from entry i on:
\* the index of the entry found, 0 for undefined.
RECURSIVE FindField(_, _, _)
FindField(errors, fieldName, i) ==
  IF i > Len(errors) THEN 0
  ELSE IF errors[i].field = fieldName THEN i
  ELSE FindField(errors, fieldName, i + 1)

\* Mutant: the last entry of the field is the one returned.
getFieldErrors_Last(this, fieldName) ==
  LET found == { i \in DOMAIN this.errors : this.errors[i].field = fieldName }
  IN IF found = {} THEN <<>>
     ELSE this.errors[CHOOSE i \in found : \A j \in found : j <= i].messages

\* InputValidationError.getFieldErrors
getFieldErrors(this, fieldName) ==
  LET fieldError == FindField(this.errors, fieldName, 1)
  IN IF fieldError # 0 THEN this.errors[fieldError].messages ELSE <<>>

\* InputValidationError.hasFieldError
hasFieldError(this, fieldName) == Len(getFieldErrors(this, fieldName)) > 0

\* InputValidationError.getInvalidFields
getInvalidFields(this) == [i \in 1..Len(this.errors) |-> this.errors[i].field]

\* path.join(".")
RECURSIVE Join(_)
Join(path) ==
  IF path = <<>> THEN ""
  ELSE IF Len(path) = 1 THEN path[1]
  ELSE path[1] \o "." \o Join(Tail(path))

\* mockZodSerializer(error)
mockZodSerializer(error) ==
  [name |-> "ZodValidationError",
   errors |-> [i \in 1..Len(error.issues) |->
                 [field |-> Join(error.issues[i].path),
                  messages |-> << error.issues[i].message >>]]]

\* serializer(rawError), for the serializers injected: the Zod-like one, and
\* a mock made to return a given result whatever its argument.
Invoke(serializer, rawError) ==
  IF serializer.kind = "mockZodSerializer" THEN mockZodSerializer(rawError)
  ELSE serializer.returns

\* new InputValidationError(rawError, serializer): the error made and the
\* calls of the serializer.
InputValidationError_constructor(rawError, serializer) ==
  LET serialized == Invoke(serializer, rawError)
  IN [this |-> InputValidationError(serialized),
      serializerCalls |-> << rawError >>]

\* ------------------------------------------------------------ the objects
\* Objects that errors refer to as their cause: a root cause, a cause with
\* code and meta, a non-error object, an Error that is its own cause, two
\* Errors that are each other's cause, an HttpError that is its own cause, a
\* plain object whose cause is an Error, and an Error caused by that object.
FixedObjects ==
  << [cls |-> "Error", name |-> "Error", message |-> "connect ECONNREFUSED",
      stack |-> "Error: connect ECONNREFUSED at net.js:1", cause |-> 0],
     [cls |-> "Error", name |-> "Error", message |-> "query failed",
      stack |-> "Error: query failed at db.js:7", code |-> "OUTER",
      meta |-> "{detail:42}", cause |-> 1],
     [cls |-> "Object", timeout |-> TRUE],
     [cls |-> "Error", name |-> "Error", message |-> "loop",
      stack |-> "Error: loop at a.js:3", cause |-> 4],
     [cls |-> "Error", name |-> "Error", message |-> "ping",
      stack |-> "Error: ping at a.js:5", cause |-> 6],
     [cls |-> "Error", name |-> "Error", message |-> "pong",
      stack |-> "Error: pong at a.js:6", cause |-> 5],
     HttpError([name |-> "SelfError", message |-> "caused by itself",
                responseMessage |-> "Internal", code |-> "E_SELF",
                meta |-> Undefined, logLevel |-> "error", cause |-> 7], 500),
     [cls |-> "Object", reason |-> "timeout", cause |-> 1],
     [cls |-> "Error", name |-> "Error", message |-> "request failed",
      stack |-> "Error: request failed at http.js:2", cause |-> 8] >>

\* current = new Error(`cause-${i}`, { cause: current }), MaxChain times:
\* link k of the chain has link k + 1 as its cause and the last one has none.
ChainLink(k) ==
  [cls |-> "Error", name |-> "Error",
   message |-> "cause-" \o ToString(k),
   stack |-> "Error: cause-" \o ToString(k) \o " at chain.js:1",
   cause |-> IF k < MaxChain THEN Len(FixedObjects) + k + 1 ELSE 0]

Heap == FixedObjects \o [k \in 1..MaxChain |-> ChainLink(k)]

\* The object a reference stands for, among the objects as they are now.
DerefIn(heap, ref) == heap[ref]

Deref(ref) == DerefIn(Heap, ref)

\* ---------------------------------------------------- HttpErrorSerializer
\* Mutant: the record pushed has all six keys, whatever the cause has.
causeInfo_AllKeys(current) ==
  [k \in {"name", "message", "stack", "code", "responseMessage", "meta"}
     |-> Get(current, k)]

\* The record pushed for one cause: name, message and stack always, and
\* code, responseMessage and meta when the property is `in` the cause.
causeInfo(current) ==
  [k \in {"name", "message", "stack"} \cup
         ({"code", "responseMessage", "meta"} \cap DOMAIN current)
     |-> Get(current, k)]

\* The variables of the while loop of flattenErrorCauses, before it starts,
\* and the objects the causes refer to.
CauseInitOn(error, heap) ==
  [current |-> error, count |-> 0, result |-> <<>>, heap |-> heap]

CauseInit(error) == CauseInitOn(error, Heap)

\* Mutant: the loop has no depth bound.
CauseCond_NoDepth(s) ==
  /\ InstanceOfError(s.current)
  /\ "cause" \in DOMAIN s.current /\ s.current.cause # 0

\* Mutant: the loop goes on through a link that is not an Error.
CauseCond_AnyObject(s) ==
  /\ "cause" \in DOMAIN s.current /\ s.current.cause # 0
  /\ s.count < MAX_CAUSE_DEPTH

\* Mutant: the loop stops one link early.
CauseCond_Early(s) ==
  /\ InstanceOfError(s.current)
  /\ "cause" \in DOMAIN s.current /\ s.current.cause # 0
  /\ s.count < MAX_CAUSE_DEPTH - 1

\* current instanceof Error && current.cause && count < MAX_CAUSE_DEPTH
CauseCond(s) ==
  /\ InstanceOfError(s.current)
  /\ "cause" \in DOMAIN s.current /\ s.current.cause # 0
  /\ s.count < MAX_CAUSE_DEPTH

\* Mutant: each cause is put in front of the ones found before it.
CauseBody_Unshift(s) ==
  LET next == DerefIn(s.heap, s.current.cause)
  IN [s EXCEPT !.current = next, !.count = @ + 1,
               !.result = IF InstanceOfError(next)
                          THEN <<causeInfo(next)>> \o @ ELSE @]

\* Mutant: each link visited is marked, to recognise it later.
CauseBody_Mark(s) ==
  LET next == DerefIn(s.heap, s.current.cause)
  IN [s EXCEPT !.current = next, !.count = @ + 1,
               !.result = IF InstanceOfError(next)
                          THEN Append(@, causeInfo(next)) ELSE @,
               !.heap[s.current.cause] =
                  [k \in DOMAIN next \cup {"visited"} |->
                     IF k = "visited" THEN TRUE ELSE next[k]]]

\* The body of the while loop: one link is followed and, when it is an
\* Error, described.
CauseBody(s) ==
  LET next == DerefIn(s.heap, s.current.cause)
  IN [s EXCEPT !.current = next, !.count = @ + 1,
               !.result = IF InstanceOfError(next)
                          THEN Append(@, causeInfo(next)) ELSE @]

\* One test of the loop condition, and the body when it holds.
CauseStep(s) == IF CauseCond(s) THEN CauseBody(s) ELSE s

\* More iterations than any loop that ends performs on the heap above.
MaxIterations == MAX_CAUSE_DEPTH + MaxChain

\* n tests of the loop condition in a row, by halves (each half is computed
\* before the next is started).
RECURSIVE CauseSteps(_, _)
CauseSteps(n, s) ==
  IF n = 0 THEN s
  ELSE IF n = 1 THEN CauseStep(s)
  ELSE LET half == CauseSteps(n \div 2, s)
       IN IF half.count >= 0 THEN CauseSteps(n - (n \div 2), half) ELSE half

\* Whether the loop of flattenErrorCauses ends: its condition is false after
\* some iteration.
flattenErrorCauses_returns(error) ==
  ~CauseCond(CauseSteps(MaxIterations, CauseInit(error)))

\* The value flattenErrorCauses returns when its loop ends.
flattenErrorCauses(error) == CauseSteps(MaxIterations, CauseInit(error)).result

\* HttpErrorSerializer.serializerError: the diagnostic record, for logs.
serializerError(error) ==
  [topLevel |-> [name |-> error.name,
                 message |-> error.message,
                 code |-> error.code,
                 logLevel |-> error.logLevel,
                 responseMessage |-> error.responseMessage,
                 meta |-> error.meta,
                 stack |-> error.stack],
   causeChain |-> flattenErrorCauses(error)]

\* serializerError(error) with the objects as they are in heap: the record
\* returned, and the error and the objects as the call leaves them.
serializerErrorOn(error, heap) ==
  LET end == CauseSteps(MaxIterations, CauseInitOn(error, heap))
  IN [record |-> [topLevel |-> serializerError(error).topLevel,
                  causeChain |-> end.result],
      error |-> error,
      heap |-> end.heap]

\* Mutant: the client record carries the internal message.
serializeResponse_InternalMessage(error) ==
  [errorType |-> "Server",
   error |-> [message |-> error.message,
              code |-> error.code,
              name |-> error.name]]

\* Mutant: the client record is the error's own fields next to its type.
serializeResponse_Spread(error) ==
  [errorType |-> "Server",
   error |-> [message |-> error.responseMessage,
              code |-> error.code,
              name |-> error.name,
              meta |-> error.meta,
              stack |-> error.stack]]

\* HttpErrorSerializer.serializeResponse: the client record.
serializeResponse(error) ==
  [errorType |-> "Server",
   error |-> [message |-> error.responseMessage,
              code |-> error.code,
              name |-> error.name]]

\* ------------------------------------------------------------ errorMapper
\* new (class extends CustomError { ... })(params)
CustomError(params) ==
  [cls |-> "CustomError",
   name |-> params.name,
   message |-> params.message,
   meta |-> params.meta,
   code |-> params.code,
   logLevel |-> params.logLevel,
   cause |-> params.cause,
   stack |-> params.name \o ": " \o params.message \o " at app.js:4"]

\* new MappedHttpError(params): super(params); this.statusCode = params.statusCode
MappedHttpError(params) ==
  [HttpError(params, params.statusCode) EXCEPT !.cls = "MappedHttpError"]

\* An error code is a string, a number or a symbol: [t |-> its type, v |-> it].
\* String(code)
String(code) ==
  CASE code.t = "number" -> ToString(code.v)
    [] code.t = "symbol" -> "Symbol(" \o code.v \o ")"
    [] OTHER -> code.v

\* The property key a value used as a key stands for: a number becomes its
\* decimal string, a string and a symbol stay.
ToPropertyKey(code) ==
  IF code.t = "number" THEN [t |-> "string", v |-> ToString(code.v)] ELSE code

\* The object an object literal of key: value entries evaluates to: a
\* function from property keys to values.
ObjectLiteral(entries) ==
  [k \in { ToPropertyKey(e[1]) : e \in entries } |->
     (CHOOSE e \in entries : ToPropertyKey(e[1]) = k)[2]]

\* Members every object literal inherits from Object.prototype (some of them).
ObjectPrototypeKeys == {"constructor", "toString"}

UndefinedValue == [cls |-> "undefined"]

\* !x, for the values a lookup in the table gives
Falsy(x) == "cls" \in DOMAIN x /\ x.cls \in {"undefined", "null"}

\* Mutant: the code is looked up without conversion to a property key.
GetProperty_Raw(obj, code) ==
  IF code \in DOMAIN obj THEN obj[code] ELSE UndefinedValue

\* obj[code]: the own property when there is one, else the inherited member,
\* else undefined.
GetProperty(obj, code) ==
  LET k == ToPropertyKey(code)
  IN IF k \in DOMAIN obj THEN obj[k]
     ELSE IF k.t = "string" /\ k.v \in ObjectPrototypeKeys
          THEN [cls |-> "function", name |-> k.v]
          ELSE UndefinedValue

\* Mutant: the generic error is built without the source's meta and cause.
errorMapper_Bare(error, codeMapping) ==
  LET mapping == GetProperty(codeMapping, error.code)
  IN IF Falsy(mapping)
     THEN [result |-> MappedHttpError(
                        [statusCode |-> 500,
                         responseMessage |-> "Internal Server Error",
                         name |-> error.name,
                         message |-> error.message,
                         code |-> error.code,
                         logLevel |-> error.logLevel,
                         meta |-> Undefined,
                         cause |-> 0]),
           warns |-> << [message |-> "No HTTP mapping found for error code: "
                                       \o String(error.code),
                         meta |-> [errorName |-> error.name,
                                   errorMessage |-> error.message]] >>,
           error |-> error, codeMapping |-> codeMapping]
     ELSE [result |-> MappedHttpError(
                        [statusCode |-> Get(mapping, "statusCode"),
                         responseMessage |-> Get(mapping, "responseMessage"),
                         name |-> error.name,
                         message |-> error.message,
                         code |-> error.code,
                         logLevel |-> error.logLevel,
                         meta |-> error.meta,
                         cause |-> error.cause]),
           warns |-> <<>>,
           error |-> error, codeMapping |-> codeMapping]

\* errorMapper(error, codeMapping): the error returned, the console.warn
\* calls made, and the two arguments as the call leaves them.
errorMapper(error, codeMapping) ==
  LET mapping == GetProperty(codeMapping, error.code)
  IN IF Falsy(mapping)
     THEN [result |-> MappedHttpError(
                        [statusCode |-> 500,
                         responseMessage |-> "Internal Server Error",
                         name |-> error.name,
                         message |-> error.message,
                         code |-> error.code,
                         logLevel |-> error.logLevel,
                         meta |-> error.meta,
                         cause |-> error.cause]),
           warns |-> << [message |-> "No HTTP mapping found for error code: "
                                       \o String(error.code),
                         meta |-> [errorName |-> error.name,
                                   errorMessage |-> error.message]] >>,
           error |-> error, codeMapping |-> codeMapping]
     ELSE [result |-> MappedHttpError(
                        [statusCode |-> Get(mapping, "statusCode"),
                         responseMessage |-> Get(mapping, "responseMessage"),
                         name |-> error.name,
                         message |-> error.message,
                         code |-> error.code,
                         logLevel |-> error.logLevel,
                         meta |-> error.meta,
                         cause |-> error.cause]),
           warns |-> <<>>,
           error |-> error, codeMapping |-> codeMapping]

\* ----------------------------------------------------- zodErrorSerializer
\* An object used as a dictionary: its own keys in the order they were
\* added, and the value of each.
EmptyObject == [keys |-> <<>>, vals |-> [k \in {} |-> <<>>]]

\* Keys that are array indices ("0", "1", ...), and the number each stands for.
IsArrayIndex(key) == key \in { ToString(n) : n \in 0..9 }
IndexValue(key) == CHOOSE n \in 0..9 : ToString(n) = key

\* Object.entries(obj): the array-index keys first, in ascending numeric
\* order, then the other keys in the order they were added.
ObjectEntries(obj) ==
  LET indexKeys == { obj.keys[i] : i \in { j \in DOMAIN obj.keys :
                                             IsArrayIndex(obj.keys[j]) } }
      rank(k) == Cardinality({ j \in indexKeys : IndexValue(j) <= IndexValue(k) })
      sorted == [i \in 1..Cardinality(indexKeys) |->
                   CHOOSE k \in indexKeys : rank(k) = i]
      others == SelectSeq(obj.keys, LAMBDA k : ~IsArrayIndex(k))
      ordered == sorted \o others
  IN [i \in 1..Len(ordered) |-> << ordered[i], obj.vals[ordered[i]] >>]

\* issue.path.join(".") || "general"
IssueField(issue) ==
  IF Join(issue.path) = "" THEN "general" ELSE Join(issue.path)

\* The body of the for loop, for one issue: grouped[field] is read (an own
\* key, or a member inherited from Object.prototype, which is truthy and has
\* no push), set to [] when falsy, and the message is pushed.
GroupIssue(state, issue) ==
  LET field == IssueField(issue)
      grouped == state.grouped
  IN IF state.thrown THEN state
     ELSE IF field \in DOMAIN grouped.vals
     THEN [state EXCEPT !.grouped.vals[field] = Append(@, issue.message)]
     ELSE IF field \in ObjectPrototypeKeys
     THEN [state EXCEPT !.thrown = TRUE]
     ELSE [state EXCEPT !.grouped =
             [keys |-> Append(grouped.keys, field),
              vals |-> [k \in DOMAIN grouped.vals \cup {field} |->
                          IF k = field THEN << issue.message >>
                          ELSE grouped.vals[k]]]]

\* for (const issue of error.issues) { ... }, from issue i on
RECURSIVE GroupIssues(_, _, _)
GroupIssues(state, issues, i) ==
  IF i > Len(issues) THEN state
  ELSE GroupIssues(GroupIssue(state, issues[i]), issues, i + 1)

\* zodErrorSerializer(error): whether it throws, and what it returns.
zodErrorSerializer(error) ==
  LET end == GroupIssues([grouped |-> EmptyObject, thrown |-> FALSE],
                         error.issues, 1)
      entries == ObjectEntries(end.grouped)
  IN IF end.thrown THEN [thrown |-> TRUE]
     ELSE [thrown |-> FALSE,
           value |-> [name |-> "ValidationError",
                      errors |-> [i \in 1..Len(entries) |->
                                    [field |-> entries[i][1],
                                     messages |-> entries[i][2]]]]]

\* serializeResponse(error) with the objects as they are in heap: the record
\* returned, and the error and the objects as the call leaves them.
serializeResponseOn(error, heap) ==
  [record |-> serializeResponse(error), error |-> error, heap |-> heap]

\* ------------------------------------------------- effects of one dispatch
\* What one call of ErrorHandler.handle has done so far: the canHandle and
\* handle calls made (strategy indices), the logger calls, the calls of
\* res.status and res.json, whether an exception is propagating, and the
\* order of all of these.
NoEffect ==
  [canHandle |-> <<>>, handle |-> <<>>, logs |-> <<>>, status |-> <<>>,
   json |-> <<>>, thrown |-> FALSE, trace |-> <<>>, diag |-> <<>>]

\* A statement after a throw does not run.
Throw(eff) == [eff EXCEPT !.thrown = TRUE]

\* this.httpErrorSerializer.serializerError(error) is called.
SerializerErrorCall(eff, error) ==
  IF eff.thrown THEN eff ELSE [eff EXCEPT !.diag = Append(@, error)]

\* this.logger[level](message, meta)
LoggerCall(eff, level, message, meta) ==
  IF eff.thrown THEN eff
  ELSE [eff EXCEPT !.logs = Append(@, [level |-> level, message |-> message,
                                       meta |-> meta]),
                   !.trace = Append(@, "log")]

\* res.status(code)
ResStatus(eff, code) ==
  IF eff.thrown THEN eff
  ELSE [eff EXCEPT !.status = Append(@, code), !.trace = Append(@, "status")]

\* What res.json sends for a body: JSON.stringify replaces a value that has
\* a toJSON method (an InputValidationError) by the result of toJSON.
JsonBody(body) ==
  IF "error" \in DOMAIN body /\ "cls" \in DOMAIN body.error
     /\ InstanceOfInputValidationError(body.error)
  THEN [body EXCEPT !.error = toJSON(@)]
  ELSE body

\* res.json(body)
ResJson(eff, body) ==
  IF eff.thrown THEN eff
  ELSE [eff EXCEPT !.json = Append(@, JsonBody(body)),
                   !.trace = Append(@, "json")]

\* ------------------------------------------------------------- strategies
HttpErrorHandlerStrategy(logger) ==
  [kind |-> "HttpErrorHandlerStrategy", logger |-> logger]
InputValidationErrorHandlerStrategy(logger) ==
  [kind |-> "InputValidationErrorHandlerStrategy", logger |-> logger]
FallbackErrorStrategy(logger) ==
  [kind |-> "FallbackErrorStrategy", logger |-> logger]

\* A strategy object as the dispatcher's tests build it: canHandle returns
\* a fixed value; handle writes a response (writes = 1) or is a bare
\* vi.fn() that does nothing (writes = 0).
MockStrategies == [kind : {"mock"}, can : BOOLEAN, writes : {0, 1}]

HttpErrorHandlerStrategy_canHandle(err) == InstanceOfHttpError(err)

\* Mutant: every HttpError is answered with status 500.
HttpErrorHandlerStrategy_handle_Status500(this, err, eff) ==
  LET logged == IF this.logger
                THEN LoggerCall(SerializerErrorCall(eff, err), err.logLevel,
                                "HttpError", serializerError(err))
                ELSE eff
  IN ResJson(ResStatus(logged, 500), serializeResponse(err))

\* Mutant: the diagnostic record is computed before the logger is tested.
HttpErrorHandlerStrategy_handle_Eager(this, err, eff) ==
  LET computed == SerializerErrorCall(eff, err)
      logged == IF this.logger
                THEN LoggerCall(computed, err.logLevel, "HttpError",
                                serializerError(err))
                ELSE computed
  IN ResJson(ResStatus(logged, err.statusCode), serializeResponse(err))

\* HttpErrorHandlerStrategy.handle: the arguments of the logger call are
\* evaluated, serializerError among them, only when there is a logger.
HttpErrorHandlerStrategy_handle(this, err, eff) ==
  LET logged == IF this.logger
                THEN LoggerCall(SerializerErrorCall(eff, err), err.logLevel,
                                "HttpError", serializerError(err))
                ELSE eff
  IN ResJson(ResStatus(logged, err.statusCode), serializeResponse(err))

InputValidationErrorHandlerStrategy_canHandle(err) ==
  InstanceOfInputValidationError(err)

\* Mutant: validation failures are logged like unexpected errors.
InputValidationErrorHandlerStrategy_handle_LogError(this, err, eff) ==
  LET logged == IF this.logger
                THEN LoggerCall(eff, "error", "InputValidationError", err)
                ELSE eff
  IN ResJson(ResStatus(logged, 400),
             [errorType |-> "InputValidation", error |-> err])

InputValidationErrorHandlerStrategy_handle(this, err, eff) ==
  LET logged == IF this.logger
                THEN LoggerCall(eff, "warn", "InputValidationError", err)
                ELSE eff
  IN ResJson(ResStatus(logged, 400),
             [errorType |-> "InputValidation", error |-> err])

\* Mutant: the fallback declines the errors a specific strategy knows.
FallbackErrorStrategy_canHandle_Unknown(err) ==
  ~(InstanceOfHttpError(err) \/ InstanceOfInputValidationError(err))

FallbackErrorStrategy_canHandle(err) == TRUE

\* FallbackErrorStrategy.log: error.name is read without a check.
FallbackErrorStrategy_log(this, error, eff) ==
  IF this.logger
  THEN IF ReadThrows(error)
       THEN Throw(eff)
       ELSE LoggerCall(eff, "error", "UnexpectedError" \o Get(error, "name"),
                       [topLevel |-> [name |-> Get(error, "name"),
                                      message |-> Get(error, "message"),
                                      code |-> Get(error, "code"),
                                      meta |-> Get(error, "meta"),
                                      stack |-> Get(error, "stack")]])
  ELSE eff

\* Mutant: the fallback body echoes the value's own message.
FallbackErrorStrategy_handle_Echo(this, err, eff) ==
  LET logged == FallbackErrorStrategy_log(this, err, eff)
  IN ResJson(ResStatus(logged, 500),
             [errorType |-> "Server",
              error |-> [code |-> "UNKNOWN_ERROR",
                         message |-> Get(err, "message"),
                         name |-> "unknown"]])

FallbackErrorStrategy_handle(this, err, eff) ==
  LET logged == FallbackErrorStrategy_log(this, err, eff)
  IN ResJson(ResStatus(logged, 500),
             [errorType |-> "Server",
              error |-> [code |-> "UNKNOWN_ERROR",
                         message |-> "An Expected error occurred.",
                         name |-> "unknown"]])

\* handle of a mock strategy
Mock_handle(this, err, eff) ==
  IF this.writes = 0 THEN eff
  ELSE ResJson(ResStatus(eff, 418),
               [errorType |-> "Custom", error |-> [name |-> "custom"]])

\* s.canHandle(err), by the class of s
canHandle(s, err) ==
  CASE s.kind = "HttpErrorHandlerStrategy" ->
         HttpErrorHandlerStrategy_canHandle(err)
    [] s.kind = "InputValidationErrorHandlerStrategy" ->
         InputValidationErrorHandlerStrategy_canHandle(err)
    [] s.kind = "FallbackErrorStrategy" -> FallbackErrorStrategy_canHandle(err)
    [] s.kind = "mock" -> s.can

\* s.handle(err, res), by the class of s
handle(s, err, eff) ==
  CASE s.kind = "HttpErrorHandlerStrategy" ->
         HttpErrorHandlerStrategy_handle(s, err, eff)
    [] s.kind = "InputValidationErrorHandlerStrategy" ->
         InputValidationErrorHandlerStrategy_handle(s, err, eff)
    [] s.kind = "FallbackErrorStrategy" ->
         FallbackErrorStrategy_handle(s, err, eff)
    [] s.kind = "mock" -> Mock_handle(s, err, eff)

\* ------------------------------------------------------------ ErrorHandler
\* Mutant: strategies.filter(...)[0], which calls canHandle on every
\* strategy before it takes the first match.
find_Filter(strats, err, i, eff) ==
  LET m == { j \in i..Len(strats) : canHandle(strats[j], err) }
      n == Len(strats) - i + 1
  IN [found |-> IF m = {} THEN 0 ELSE CHOOSE j \in m : \A k \in m : j <= k,
      eff |-> [eff EXCEPT !.canHandle = @ \o [j \in 1..n |-> i + j - 1],
                          !.trace = @ \o [j \in 1..n |-> "canHandle"]]]

\* this.strategies.find((s) => s.canHandle(err)): the predicate is called
\* on the elements in index order until it returns true.
RECURSIVE find(_, _, _, _)
find(strats, err, i, eff) ==
  IF i > Len(strats) THEN [found |-> 0, eff |-> eff]
  ELSE LET called == [eff EXCEPT !.canHandle = Append(@, i),
                                 !.trace = Append(@, "canHandle")]
       IN IF canHandle(strats[i], err)
          THEN [found |-> i, eff |-> called]
          ELSE find(strats, err, i + 1, called)

\* Mutant: the hardcoded write is not in an else branch.
ErrorHandler_handle_NoElse(strats, err) ==
  LET scan == find(strats, err, 1, NoEffect)
      handled == IF scan.found # 0
                 THEN handle(strats[scan.found], err,
                             [scan.eff EXCEPT !.handle = Append(@, scan.found),
                                              !.trace = Append(@, "handle")])
                 ELSE scan.eff
  IN ResJson(ResStatus(handled, 500),
             [code |-> "UNKNOWN_ERROR",
              message |-> "An Expected error occurred.",
              name |-> "unknown"])

\* Mutant: the hardcoded body has the fallback strategy's wrapped shape.
ErrorHandler_handle_Wrapped(strats, err) ==
  LET scan == find(strats, err, 1, NoEffect)
  IN IF scan.found # 0
     THEN handle(strats[scan.found], err,
                 [scan.eff EXCEPT !.handle = Append(@, scan.found),
                                  !.trace = Append(@, "handle")])
     ELSE ResJson(ResStatus(scan.eff, 500),
                  [errorType |-> "Server",
                   error |-> [code |-> "UNKNOWN_ERROR",
                              message |-> "An Expected error occurred.",
                              name |-> "unknown"]])

\* ErrorHandler.handle(err, req, res, next)
ErrorHandler_handle(strats, err) ==
  LET scan == find(strats, err, 1, NoEffect)
  IN IF scan.found # 0
     THEN handle(strats[scan.found], err,
                 [scan.eff EXCEPT !.handle = Append(@, scan.found),
                                  !.trace = Append(@, "handle")])
     ELSE ResJson(ResStatus(scan.eff, 500),
                  [code |-> "UNKNOWN_ERROR",
                   message |-> "An Expected error occurred.",
                   name |-> "unknown"])

\* Mutant: the chain is built without the fallback.
createErrHandlerMiddleware_NoFallback(logger) ==
  << HttpErrorHandlerStrategy(logger),
     InputValidationErrorHandlerStrategy(logger) >>

\* createErrHandlerMiddleware(logger): the strategies of the ErrorHandler
\* whose handle it returns.
createErrHandlerMiddleware(logger) ==
  << HttpErrorHandlerStrategy(logger),
     InputValidationErrorHandlerStrategy(logger),
     FallbackErrorStrategy(logger) >>

\* ------------------------------------------------------ values dispatched
\* Constructor parameters of the HttpErrors dispatched: the internal message
\* differs from the client-safe responseMessage.
HttpErrorParams ==
  { [name |-> "NotFoundError", message |-> "user 42 missing in table users",
     responseMessage |-> "Not Found", code |-> "E_NF", meta |-> Undefined,
     cause |-> 0, logLevel |-> l, statusCode |-> 404] : l \in LogLevel }
  \cup
  { [name |-> "DbError", message |-> "pg refused at 10.0.0.5",
     responseMessage |-> "Service unavailable", code |-> "E_DB",
     meta |-> "{host:10.0.0.5}", cause |-> 2, logLevel |-> l,
     statusCode |-> 503] : l \in {"warn", "error"} }

HttpErrors == { HttpError(p, p.statusCode) : p \in HttpErrorParams }

\* Results of injected validation serializers: an entry may lack its field.
SerializedResults ==
  { [name |-> "ValidationError",
     errors |-> << [field |-> "email", messages |-> <<"Invalid email format">>] >>],
    [name |-> "ZodValidationError",
     errors |-> << [messages |-> <<"Required">>],
                   [field |-> "password",
                    messages |-> <<"Too short", "Needs a digit">>] >>] }

InputValidationErrors == { InputValidationError(s) : s \in SerializedResults }

\* Values outside the taxonomy: plain Errors (one carrying code and meta),
\* a thrown string, null and undefined.
OtherValues ==
  { [cls |-> "Error", name |-> "Error", message |-> "Boom!",
     stack |-> "Error: Boom! at app.js:3"],
    [cls |-> "Error", name |-> "TypeError", message |-> "x is not a function",
     stack |-> "TypeError: x is not a function at lib.js:9",
     code |-> "ERR_TEST", meta |-> "{foo:bar}"],
    [cls |-> "string", value |-> "boom"],
    [cls |-> "null"],
    [cls |-> "undefined"] }

ThrownValues == HttpErrors \cup InputValidationErrors \cup OtherValues

\* The error the dispatcher's own tests pass to a list of mock strategies.
MockErrors == { [cls |-> "Error", name |-> "Error", message |-> "Boom!",
                 stack |-> "Error: Boom! at app.js:3"] }

\* Lists of the concrete strategies: the factory's chain, the chain built
\* without its fallback, and chains with the fallback before a specific
\* strategy; each with and without a logger.
ConcreteChains ==
  UNION { { createErrHandlerMiddleware(lg),
            << HttpErrorHandlerStrategy(lg),
               InputValidationErrorHandlerStrategy(lg) >>,
            << FallbackErrorStrategy(lg), HttpErrorHandlerStrategy(lg),
               InputValidationErrorHandlerStrategy(lg) >>,
            << HttpErrorHandlerStrategy(lg), FallbackErrorStrategy(lg),
               InputValidationErrorHandlerStrategy(lg) >> } : lg \in BOOLEAN }

\* Every list of at most MaxStrategies mock strategies, the empty one included.
MockChains == UNION { [1..n -> MockStrategies] : n \in 0..MaxStrategies }

\* ------------------------------------------------------------------ state
VARIABLES
  strategies,      \* ErrorHandler.strategies
  err,             \* per request: the value passed to handle
  ended,           \* per request: "pending", "returned" or "threw"
  canHandleCalls,  \* per request: indices of the strategies whose canHandle ran
  handleCalls,     \* per request: indices of the strategies whose handle ran
  logCalls,        \* per request: the logger calls made
  statusCalls,     \* per request: the arguments of res.status
  jsonCalls,       \* per request: the bodies sent by res.json
  trace,           \* per request: the calls above in the order made
  serializerErrorCalls,  \* per request: the arguments of serializerError
  clientCalls,     \* two calls of serializeResponse: argument and result
  diagCall,        \* one call of serializerError: argument and result
  mapCall,         \* one call of errorMapper: arguments, result, warnings
  ivCall,          \* one construction of an InputValidationError
  fieldCall,       \* one query of the constructed error's fields
  zodCall          \* one call of zodErrorSerializer: argument and outcome

vars == << strategies, err, ended, canHandleCalls, handleCalls, logCalls,
           statusCalls, jsonCalls, trace, serializerErrorCalls, clientCalls,
           diagCall, mapCall, ivCall, fieldCall, zodCall >>

\* What a dispatch writes.
dispatchVars == << err, ended, canHandleCalls, handleCalls, logCalls,
                  statusCalls, jsonCalls, trace, serializerErrorCalls >>

\* The two calls of the serializer that are compared with each other.
Calls == {"first", "second"}
NotCalled == [called |-> FALSE]

NoValue == [cls |-> "none"]

InitWith(chains) ==
  /\ strategies \in chains
  /\ err = [r \in Requests |-> NoValue]
  /\ ended = [r \in Requests |-> "pending"]
  /\ canHandleCalls = [r \in Requests |-> <<>>]
  /\ handleCalls = [r \in Requests |-> <<>>]
  /\ logCalls = [r \in Requests |-> <<>>]
  /\ statusCalls = [r \in Requests |-> <<>>]
  /\ jsonCalls = [r \in Requests |-> <<>>]
  /\ trace = [r \in Requests |-> <<>>]
  /\ serializerErrorCalls = [r \in Requests |-> <<>>]
  /\ clientCalls = [c \in Calls |-> NotCalled]
  /\ diagCall = NotCalled
  /\ mapCall = NotCalled
  /\ ivCall = NotCalled
  /\ fieldCall = NotCalled
  /\ zodCall = NotCalled

\* Mutant: the response of the call is kept in a field of the handler, which
\* every request's sink shares.
Dispatch_SharedSink(r, e) ==
  /\ ended[r] = "pending"
  /\ LET eff == ErrorHandler_handle(strategies, e)
     IN /\ err' = [err EXCEPT ![r] = e]
        /\ ended' = [ended EXCEPT ![r] = IF eff.thrown THEN "threw" ELSE "returned"]
        /\ canHandleCalls' = [canHandleCalls EXCEPT ![r] = eff.canHandle]
        /\ handleCalls' = [handleCalls EXCEPT ![r] = eff.handle]
        /\ logCalls' = [logCalls EXCEPT ![r] = eff.logs]
        /\ statusCalls' = [q \in Requests |-> statusCalls[q] \o eff.status]
        /\ jsonCalls' = [q \in Requests |-> jsonCalls[q] \o eff.json]
        /\ trace' = [trace EXCEPT ![r] = eff.trace]
        /\ serializerErrorCalls' = [serializerErrorCalls EXCEPT ![r] = eff.diag]
  /\ UNCHANGED << strategies, clientCalls, diagCall, mapCall, ivCall,
                  fieldCall, zodCall >>

\* The middleware is called for request r with the value e and r's response.
Dispatch(r, e) ==
  /\ ended[r] = "pending"
  /\ LET eff == ErrorHandler_handle(strategies, e)
     IN /\ err' = [err EXCEPT ![r] = e]
        /\ ended' = [ended EXCEPT ![r] = IF eff.thrown THEN "threw" ELSE "returned"]
        /\ canHandleCalls' = [canHandleCalls EXCEPT ![r] = eff.canHandle]
        /\ handleCalls' = [handleCalls EXCEPT ![r] = eff.handle]
        /\ logCalls' = [logCalls EXCEPT ![r] = eff.logs]
        /\ statusCalls' = [statusCalls EXCEPT ![r] = eff.status]
        /\ jsonCalls' = [jsonCalls EXCEPT ![r] = eff.json]
        /\ trace' = [trace EXCEPT ![r] = eff.trace]
        /\ serializerErrorCalls' = [serializerErrorCalls EXCEPT ![r] = eff.diag]
  /\ UNCHANGED << strategies, clientCalls, diagCall, mapCall, ivCall,
                  fieldCall, zodCall >>

\* Concrete strategy chains, any thrown value.
Init == InitWith(ConcreteChains)
Next == \E r \in Requests, e \in ThrownValues : Dispatch(r, e)
Spec == Init /\ [][Next]_vars

\* Any list of mock strategies, as in the dispatcher's tests.
InitMock == InitWith(MockChains)
NextMock == \E r \in Requests, e \in MockErrors : Dispatch(r, e)
SpecMock == InitMock /\ [][NextMock]_vars

\* HttpErrors given to the serializer alone: every field takes two values,
\* independently of the others (the stack follows from name and message).
SerializerParams ==
  [name : {"NotFoundError", "DbError"},
   message : {"user 42 missing in table users", "pg refused at 10.0.0.5"},
   responseMessage : {"Not Found", "Service unavailable"},
   code : {"E_NF", "E_DB"},
   meta : {Undefined, "{host:10.0.0.5}"},
   cause : {0, 2},
   logLevel : {"info", "error"},
   statusCode : {404, 503}]

SerializerInputs == { HttpError(p, p.statusCode) : p \in SerializerParams }

\* serializer.serializeResponse(e), as call c.
SerializeResponse(c, e) ==
  /\ ~clientCalls[c].called
  /\ clientCalls' = [clientCalls EXCEPT ![c] =
                       [called |-> TRUE, error |-> e,
                        response |-> serializeResponse(e)]]
  /\ UNCHANGED << strategies, dispatchVars, diagCall, mapCall, ivCall,
                  fieldCall, zodCall >>

\* The serializer on its own: no strategy, no dispatch.
InitSer == InitWith({<<>>})
NextSer == \E c \in Calls, e \in SerializerInputs : SerializeResponse(c, e)
SpecSer == InitSer /\ [][NextSer]_vars

\* HttpErrors given to serializerError: the cause is nothing, any object of
\* the heap (every chain length up to MaxChain, the cycles, the non-error
\* object), or the error itself.
DiagInputs ==
  { HttpError([name |-> "DbError", message |-> "pg refused at 10.0.0.5",
               responseMessage |-> "Service unavailable", code |-> "E_DB",
               meta |-> m, logLevel |-> "error", cause |-> c], 503) :
      m \in {Undefined, "{host:10.0.0.5}"}, c \in 0..Len(Heap) }
  \cup { Heap[i] : i \in { j \in DOMAIN Heap : InstanceOfHttpError(Heap[j]) } }

\* serializer.serializerError(e)
SerializerError(e) ==
  /\ ~diagCall.called
  /\ LET out == serializerErrorOn(e, Heap)
     IN diagCall' = [called |-> TRUE, error |-> e,
                     returned |-> flattenErrorCauses_returns(e),
                     record |-> serializerError(e),
                     errorAfter |-> out.error, heapAfter |-> out.heap]
  /\ UNCHANGED << strategies, dispatchVars, clientCalls, mapCall, ivCall,
                  fieldCall, zodCall >>

\* serializer.serializerError(e) once more, then serializer.serializeResponse(e)
\* twice, on the error and the objects as the calls before left them.
SerializeAgain ==
  /\ diagCall.called /\ "again" \notin DOMAIN diagCall
  /\ LET second == serializerErrorOn(diagCall.errorAfter, diagCall.heapAfter)
         third == serializeResponseOn(second.error, second.heap)
         fourth == serializeResponseOn(third.error, third.heap)
     IN diagCall' = [called |-> TRUE, error |-> diagCall.error,
                     returned |-> diagCall.returned,
                     record |-> diagCall.record,
                     errorAfter |-> diagCall.errorAfter,
                     heapAfter |-> diagCall.heapAfter,
                     again |-> second.record,
                     client |-> third.record,
                     clientAgain |-> fourth.record,
                     errorAtEnd |-> fourth.error,
                     heapAtEnd |-> fourth.heap]
  /\ UNCHANGED << strategies, dispatchVars, clientCalls, mapCall, ivCall,
                  fieldCall, zodCall >>

InitDiag == InitWith({<<>>})
NextDiag ==
  \/ \E e \in DiagInputs : SerializerError(e)
  \/ SerializeAgain
SpecDiag == InitDiag /\ [][NextDiag]_vars

\* Codes of the errors mapped: strings, one of them the decimal form of the
\* number, a number, two symbols, and two strings that name members of
\* Object.prototype.
MapperCodes ==
  { [t |-> "string", v |-> "E_MAPPED"], [t |-> "string", v |-> "E_UNKNOWN"],
    [t |-> "string", v |-> "123"], [t |-> "number", v |-> 123],
    [t |-> "symbol", v |-> "ERR_SYMBOL"], [t |-> "symbol", v |-> "ERR_OTHER"],
    [t |-> "string", v |-> "constructor"], [t |-> "string", v |-> "toString"] }

MapperErrors ==
  { CustomError([name |-> "MappedError", message |-> "Something bad happened",
                 code |-> c, logLevel |-> l, meta |-> m, cause |-> cs]) :
      c \in MapperCodes, l \in {"warn", "error"},
      m \in {Undefined, "{userId:123}"}, cs \in {0, 1} }

\* The entries tables are written with, and the tables: every object literal
\* of some of the entries.
MapperEntries ==
  { << [t |-> "string", v |-> "E_MAPPED"],
       [statusCode |-> 400, responseMessage |-> "Bad Request"] >>,
    << [t |-> "string", v |-> "E_OTHER"],
       [statusCode |-> 404, responseMessage |-> "Not Found"] >>,
    << [t |-> "number", v |-> 123],
       [statusCode |-> 418, responseMessage |-> "I'm a teapot"] >>,
    << [t |-> "symbol", v |-> "ERR_SYMBOL"],
       [statusCode |-> 402, responseMessage |-> "Payment Required"] >>,
    << [t |-> "string", v |-> "toString"],
       [statusCode |-> 409, responseMessage |-> "Conflict"] >> }

CodeMappings == { ObjectLiteral(es) : es \in SUBSET MapperEntries }

\* errorMapper(e, t)
ErrorMapper(e, t) ==
  /\ ~mapCall.called
  /\ LET out == errorMapper(e, t)
     IN mapCall' = [called |-> TRUE, error |-> e, codeMapping |-> t,
                    result |-> out.result, warns |-> out.warns,
                    errorAfter |-> out.error, codeMappingAfter |-> out.codeMapping]
  /\ UNCHANGED << strategies, dispatchVars, clientCalls, diagCall, ivCall,
                  fieldCall, zodCall >>

InitMap == InitWith({<<>>})
NextMap == \E e \in MapperErrors, t \in CodeMappings : ErrorMapper(e, t)
SpecMap == InitMap /\ [][NextMap]_vars

\* next(errorMapper(error, errorMapping)): the error the mapper returned is
\* passed on to the error middleware.
DispatchMapped(r) ==
  /\ mapCall.called
  /\ Dispatch(r, mapCall.result)

\* A business error is mapped, then dispatched through the factory's chain.
InitCompose == InitWith({ createErrHandlerMiddleware(lg) : lg \in BOOLEAN })
NextCompose ==
  \/ \E e \in MapperErrors, t \in CodeMappings : ErrorMapper(e, t)
  \/ \E r \in Requests : DispatchMapped(r)
SpecCompose == InitCompose /\ [][NextCompose]_vars

\* Sequences of at most n elements of S.
SeqUpTo(S, n) == UNION { [1..k -> S] : k \in 0..n }

\* Raw validation errors: lists of issues, one of them with an empty path.
RawErrors ==
  { [issues |-> q] :
      q \in SeqUpTo({ [path |-> <<"email">>, message |-> "Invalid email format"],
                      [path |-> <<"user", "name">>, message |-> "Required"],
                      [path |-> <<>>, message |-> "Unrecognized key"] },
                    MaxEntries) }

\* Results a mock serializer is made to return: an entry may lack its field,
\* have it undefined, or have the empty string as its field, and one entry
\* has no messages.
SerializedEntries ==
  { [field |-> f, messages |-> m] :
      f \in {"custom", "", Undefined},
      m \in { <<"Required">>, <<"Too short", "Needs a digit">> } }
  \cup { [messages |-> <<"Required">>],
         [field |-> "custom", messages |-> <<>>] }

Serializers ==
  { [kind |-> "mockZodSerializer"] }
  \cup { [kind |-> "mockReturnValue",
          returns |-> [name |-> "CustomValidationError", errors |-> q]] :
           q \in SeqUpTo(SerializedEntries, MaxEntries) }

\* new InputValidationError(raw, serializer)
NewInputValidationError(raw, serializer) ==
  /\ ~ivCall.called
  /\ LET out == InputValidationError_constructor(raw, serializer)
     IN ivCall' = [called |-> TRUE, rawError |-> raw, serializer |-> serializer,
                   serializerCalls |-> out.serializerCalls,
                   error |-> out.this]
  /\ UNCHANGED << strategies, dispatchVars, clientCalls, diagCall, mapCall,
                  fieldCall, zodCall >>

\* Field names asked for.
FieldNames == {"custom", "", "unknown", "nonexistent"}

\* error.getFieldErrors(f), error.hasFieldError(f) and
\* error.getInvalidFields() on the error constructed.
QueryFields(f) ==
  /\ ivCall.called /\ ~fieldCall.called
  /\ fieldCall' = [called |-> TRUE, fieldName |-> f,
                   getFieldErrors |-> getFieldErrors(ivCall.error, f),
                   hasFieldError |-> hasFieldError(ivCall.error, f),
                   getInvalidFields |-> getInvalidFields(ivCall.error)]
  /\ UNCHANGED << strategies, dispatchVars, clientCalls, diagCall, mapCall,
                  ivCall, zodCall >>

InitIV == InitWith({<<>>})
NextIV ==
  \/ \E raw \in RawErrors, serializer \in Serializers :
       NewInputValidationError(raw, serializer)
  \/ \E f \in FieldNames : QueryFields(f)
SpecIV == InitIV /\ [][NextIV]_vars

\* ZodErrors: lists of issues whose paths are a field, a nested field, the
\* empty path, array indices, and a field named like a member of
\* Object.prototype.
ZodIssues ==
  { [path |-> p, message |-> m] :
      p \in { <<"email">>, <<"user", "name">>, <<>>, <<"1">>, <<"0">>,
              <<"constructor">> },
      m \in { "Required", "Invalid" } }

ZodErrors == { [issues |-> q] : q \in SeqUpTo(ZodIssues, MaxEntries) }

\* zodErrorSerializer(e)
ZodErrorSerializer(e) ==
  /\ ~zodCall.called
  /\ zodCall' = [called |-> TRUE, error |-> e, out |-> zodErrorSerializer(e)]
  /\ UNCHANGED << strategies, dispatchVars, clientCalls, diagCall, mapCall,
                  ivCall, fieldCall >>

InitZod == InitWith({<<>>})
NextZod == \E e \in ZodErrors : ZodErrorSerializer(e)
SpecZod == InitZod /\ [][NextZod]_vars

\* ================================================================= claims
\* The factory's chain, with or without a logger.
DefaultChain == strategies \in { createErrHandlerMiddleware(lg) : lg \in BOOLEAN }

Dispatched(r) == ended[r] # "pending"

\* The index of the strategy find selects for e, 0 when none matches.
Selected(e) ==
  LET m == { i \in DOMAIN strategies : canHandle(strategies[i], e) }
  IN IF m = {} THEN 0 ELSE CHOOSE i \in m : \A j \in m : i <= j

FlatUnknownBody ==
  [code |-> "UNKNOWN_ERROR", message |-> "An Expected error occurred.",
   name |-> "unknown"]

WrappedUnknownBody == [errorType |-> "Server", error |-> FlatUnknownBody]

\* C1: on the factory's chain, with or without a logger, a dispatch of any
\* thrown value (plain Errors, strings, null and undefined included) has
\* called res.status exactly once and res.json exactly once.
C1_ExactlyOnePair ==
  \A r \in Requests :
    (DefaultChain /\ Dispatched(r)) =>
      (Len(statusCalls[r]) = 1 /\ Len(jsonCalls[r]) = 1)

\* C2: for a list of strategies whose handle writes once, a request has no
\* write before its dispatch, and after it exactly one status and one body:
\* either one strategy's handle ran and wrote it, or no handle ran and the
\* dispatcher wrote its hardcoded body.
AllWriteOnce == \A i \in DOMAIN strategies : strategies[i].writes = 1

C2_OneWrite ==
  \A r \in Requests :
    AllWriteOnce =>
      /\ ~Dispatched(r) => (statusCalls[r] = <<>> /\ jsonCalls[r] = <<>>)
      /\ Dispatched(r) =>
           /\ ended[r] = "returned"
           /\ Len(statusCalls[r]) = 1 /\ Len(jsonCalls[r]) = 1
           /\ \/ /\ Len(handleCalls[r]) = 1
                 /\ statusCalls[r] = <<418>>
                 /\ jsonCalls[r][1].errorType = "Custom"
              \/ /\ handleCalls[r] = <<>>
                 /\ statusCalls[r] = <<500>>
                 /\ jsonCalls[r] = << FlatUnknownBody >>

C2_Witness ==
  \E r \in Requests :
    /\ AllWriteOnce /\ Dispatched(r)
    /\ Cardinality({ i \in DOMAIN strategies : strategies[i].can }) >= 2
    /\ Len(jsonCalls[r]) = 1 /\ Len(handleCalls[r]) = 1

\* C3: when some strategy matches, canHandle has been called on strategies
\* 1..m in that order, m being the lowest matching index, and on no later
\* one; handle has been called on strategy m alone.
C3_FirstMatchOnly ==
  \A r \in Requests :
    (Dispatched(r) /\ Selected(err[r]) # 0) =>
      LET m == Selected(err[r])
      IN /\ canHandleCalls[r] = [i \in 1..m |-> i]
         /\ handleCalls[r] = << m >>

C3_Witness ==
  \E r \in Requests :
    /\ Dispatched(r) /\ Len(strategies) = 3
    /\ ~strategies[1].can /\ strategies[2].can /\ strategies[3].can
    /\ canHandleCalls[r] = <<1, 2>> /\ handleCalls[r] = <<2>>

\* C4: when no strategy matches (the empty list included), canHandle has
\* been called on every strategy, in order, no handle has been called, and
\* then the dispatcher has written status 500 and the flat body.
C4_NoMatchWrite ==
  \A r \in Requests :
    (Dispatched(r) /\ Selected(err[r]) = 0) =>
      /\ canHandleCalls[r] = [i \in 1..Len(strategies) |-> i]
      /\ handleCalls[r] = <<>>
      /\ statusCalls[r] = <<500>>
      /\ jsonCalls[r] = << FlatUnknownBody >>
      /\ trace[r] = [i \in 1..Len(strategies) |-> "canHandle"]
                      \o <<"status", "json">>

C4_Witness ==
  \E r \in Requests :
    /\ Dispatched(r) /\ Len(strategies) = 2
    /\ ~strategies[1].can /\ ~strategies[2].can
    /\ jsonCalls[r] = << FlatUnknownBody >>

\* C5: no call of the dispatcher ends with an exception propagating to its
\* caller, whatever the value and the strategy list.
C5_NeverThrows == \A r \in Requests : ended[r] # "threw"

\* C6: on the factory's chain, a dispatched HttpError e has status
\* e.statusCode and the body {errorType: "Server", error: {message:
\* e.responseMessage, code: e.code, name: e.name}} written, once.
C6_HttpErrorResponse ==
  \A r \in Requests :
    (DefaultChain /\ Dispatched(r) /\ InstanceOfHttpError(err[r])) =>
      /\ statusCalls[r] = << err[r].statusCode >>
      /\ jsonCalls[r] = << [errorType |-> "Server",
                            error |-> [message |-> err[r].responseMessage,
                                       code |-> err[r].code,
                                       name |-> err[r].name]] >>

C6_Witness ==
  \E r \in Requests :
    /\ DefaultChain /\ Dispatched(r) /\ InstanceOfHttpError(err[r])
    /\ err[r].statusCode = 404 /\ err[r].code = "E_NF"
    /\ statusCalls[r] = <<404>>
    /\ jsonCalls[r] = << [errorType |-> "Server",
                          error |-> [message |-> "Not Found", code |-> "E_NF",
                                     name |-> "NotFoundError"]] >>

\* C7: on the factory's chain, a dispatched InputValidationError v has status
\* 400 and the body {errorType: "InputValidation", error: {name: v.name,
\* errors: v.errors}} written, and with a logger exactly one log call has
\* been made, at warn, carrying v.
C7_InputValidationResponse ==
  \A r \in Requests :
    (DefaultChain /\ Dispatched(r) /\ InstanceOfInputValidationError(err[r])) =>
      /\ statusCalls[r] = <<400>>
      /\ jsonCalls[r] = << [errorType |-> "InputValidation",
                            error |-> [name |-> err[r].name,
                                       errors |-> err[r].errors]] >>
      /\ strategies[2].logger =>
           /\ Len(logCalls[r]) = 1
           /\ logCalls[r][1].level = "warn"
           /\ logCalls[r][1].meta = err[r]

C7_Witness ==
  \E r \in Requests :
    /\ DefaultChain /\ strategies[2].logger /\ Dispatched(r)
    /\ InstanceOfInputValidationError(err[r])
    /\ Len(err[r].errors) = 2 /\ err[r].errors[1].field = "unknown"
    /\ statusCalls[r] = <<400>> /\ Len(logCalls[r]) = 1

\* C8: whenever the fallback strategy is the one selected (it matches every
\* value), status 500 and the wrapped UNKNOWN_ERROR body have been written,
\* the same for any two values, and with a logger one log call at error
\* carries the value's own name, message, code, meta and stack.
SelectedIsFallback(r) ==
  /\ Selected(err[r]) # 0
  /\ strategies[Selected(err[r])].kind = "FallbackErrorStrategy"

C8_FallbackUniform ==
  /\ \A e \in ThrownValues : FallbackErrorStrategy_canHandle(e)
  /\ \A r \in Requests :
       (Dispatched(r) /\ SelectedIsFallback(r)) =>
         /\ statusCalls[r] = <<500>>
         /\ jsonCalls[r] = << WrappedUnknownBody >>
         /\ strategies[Selected(err[r])].logger =>
              /\ Len(logCalls[r]) = 1
              /\ logCalls[r][1].level = "error"
              /\ logCalls[r][1].meta.topLevel =
                   [name |-> Get(err[r], "name"),
                    message |-> Get(err[r], "message"),
                    code |-> Get(err[r], "code"),
                    meta |-> Get(err[r], "meta"),
                    stack |-> Get(err[r], "stack")]
  /\ \A r1, r2 \in Requests :
       (Dispatched(r1) /\ Dispatched(r2) /\ SelectedIsFallback(r1)
          /\ SelectedIsFallback(r2)) =>
         (statusCalls[r1] = statusCalls[r2] /\ jsonCalls[r1] = jsonCalls[r2])

\* The keys of a client record, at both of its levels.
ResponseKeys(response) == DOMAIN response \cup DOMAIN response.error

\* C9 as stated: the client record has none of the keys message, stack,
\* meta, cause, at any level.
C9_NoSensitiveKey ==
  \A c \in Calls :
    clientCalls[c].called =>
      ResponseKeys(clientCalls[c].response)
        \cap {"message", "stack", "meta", "cause"} = {}

\* C9, amended: the client record has none of the keys stack, meta, cause at
\* any level; its keys are errorType and error, and those of error are
\* message, code and name, message holding the responseMessage.
C9_NoInternalKey ==
  \A c \in Calls :
    clientCalls[c].called =>
      /\ ResponseKeys(clientCalls[c].response)
           \cap {"stack", "meta", "cause"} = {}
      /\ DOMAIN clientCalls[c].response = {"errorType", "error"}
      /\ DOMAIN clientCalls[c].response.error = {"message", "code", "name"}
      /\ clientCalls[c].response.error.message =
           clientCalls[c].error.responseMessage

C9_Witness ==
  \E c \in Calls :
    /\ clientCalls[c].called
    /\ clientCalls[c].error.meta # Undefined
    /\ clientCalls[c].error.cause # 0
    /\ "message" \in DOMAIN clientCalls[c].response.error

\* C10: two HttpErrors that agree on responseMessage, code and name get
\* equal client records, whatever their message, stack, meta, cause,
\* logLevel and statusCode; and the record's message is the responseMessage.
C10_WhitelistOnly ==
  /\ \A c \in Calls :
       clientCalls[c].called =>
         clientCalls[c].response.error.message =
           clientCalls[c].error.responseMessage
  /\ \A c, d \in Calls :
       (/\ clientCalls[c].called /\ clientCalls[d].called
        /\ clientCalls[c].error.responseMessage =
             clientCalls[d].error.responseMessage
        /\ clientCalls[c].error.code = clientCalls[d].error.code
        /\ clientCalls[c].error.name = clientCalls[d].error.name) =>
         clientCalls[c].response = clientCalls[d].response

C10_Witness ==
  /\ clientCalls["first"].called /\ clientCalls["second"].called
  /\ clientCalls["first"].error.responseMessage =
       clientCalls["second"].error.responseMessage
  /\ clientCalls["first"].error.code = clientCalls["second"].error.code
  /\ clientCalls["first"].error.name = clientCalls["second"].error.name
  /\ clientCalls["first"].error.message # clientCalls["second"].error.message
  /\ clientCalls["first"].error.stack # clientCalls["second"].error.stack
  /\ clientCalls["first"].error.meta # clientCalls["second"].error.meta
  /\ clientCalls["first"].error.cause # clientCalls["second"].error.cause
  /\ clientCalls["first"].error.logLevel # clientCalls["second"].error.logLevel
  /\ clientCalls["first"].error.statusCode # clientCalls["second"].error.statusCode
  /\ clientCalls["first"].response = clientCalls["second"].response

\* The internal values of a dispatched value: its message, stack and meta,
\* where it has them.
InternalValues(e) ==
  { Get(e, k) : k \in {"message", "stack", "meta"} } \ {Undefined}

\* The body written for a dispatched HttpError, InputValidationError or
\* anything else, by the strategy of that class.
HttpErrorBody(e) ==
  [errorType |-> "Server",
   error |-> [message |-> e.responseMessage, code |-> e.code, name |-> e.name]]

InputValidationBody(e) ==
  [errorType |-> "InputValidation",
   error |-> [name |-> e.name, errors |-> e.errors]]

\* C11 as stated: every body written by a dispatch over the built-in
\* strategies is an object {errorType, error} of the HttpError, the
\* InputValidation or the fallback shape.
C11_ThreeShapes ==
  \A r \in Requests :
    \A i \in DOMAIN jsonCalls[r] :
      /\ DOMAIN jsonCalls[r][i] = {"errorType", "error"}
      /\ \/ DOMAIN jsonCalls[r][i].error = {"message", "code", "name"}
         \/ DOMAIN jsonCalls[r][i].error = {"name", "errors"}

\* C11, amended: every body written by a dispatch over the built-in
\* strategies is the HttpError body of the value, its InputValidation body,
\* the wrapped fallback body or, when no strategy matched, the flat
\* UNKNOWN_ERROR body; no body has a key stack, meta or cause, and a body of
\* the Server shape or the flat one holds none of the value's message, stack
\* and meta as a value.
C11_FourShapes ==
  \A r \in Requests :
    \A i \in DOMAIN jsonCalls[r] :
      LET body == jsonCalls[r][i]
      IN /\ \/ InstanceOfHttpError(err[r]) /\ body = HttpErrorBody(err[r])
            \/ InstanceOfInputValidationError(err[r])
                 /\ body = InputValidationBody(err[r])
            \/ SelectedIsFallback(r) /\ body = WrappedUnknownBody
            \/ Selected(err[r]) = 0 /\ body = FlatUnknownBody
         /\ DOMAIN body \cap {"stack", "meta", "cause"} = {}
         /\ "error" \in DOMAIN body =>
              DOMAIN body.error \cap {"stack", "meta", "cause"} = {}
         /\ body = FlatUnknownBody =>
              {body.message, body.code, body.name}
                \cap InternalValues(err[r]) = {}
         /\ ("error" \in DOMAIN body /\ body.errorType = "Server") =>
              {body.error.message, body.error.code, body.error.name}
                \cap InternalValues(err[r]) = {}

\* The four bodies are written: an HttpError with meta and a cause, a plain
\* Error with code and meta on a chain without the fallback, and so on.
C11_Witness ==
  /\ \E r \in Requests :
       /\ Dispatched(r) /\ Selected(err[r]) = 0
       /\ InternalValues(err[r]) # {} /\ jsonCalls[r] = << FlatUnknownBody >>
  /\ \E r \in Requests :
       /\ Dispatched(r) /\ InstanceOfHttpError(err[r])
       /\ err[r].meta # Undefined /\ jsonCalls[r] = << HttpErrorBody(err[r]) >>

\* The object a link refers to as its cause, 0 when it has none.
CauseOf(ref) ==
  IF ref = 0 THEN 0
  ELSE IF "cause" \in DOMAIN Heap[ref] THEN Heap[ref].cause ELSE 0

\* Jump(k)[ref]: the object reached from ref by following 2^k causes.
RECURSIVE Jump(_)
Jump(k) ==
  IF k = 0 THEN [ref \in 0..Len(Heap) |-> CauseOf(ref)]
  ELSE LET j == Jump(k - 1) IN [ref \in 0..Len(Heap) |-> j[j[ref]]]

JumpTable == [k \in 0..8 |-> Jump(k)]

\* The object reached from ref by following n causes (n < 2^9), bit k of n
\* deciding whether 2^k causes are followed.
RECURSIVE Hop(_, _, _)
Hop(ref, n, k) ==
  IF n = 0 THEN ref
  ELSE Hop(IF n % 2 = 1 THEN JumpTable[k][ref] ELSE ref, n \div 2, k + 1)

RefAfter(ref, n) == Hop(ref, n, 0)

\* The number of links of e's cause chain, -1 when the chain is cyclic.
ChainLength(e) ==
  LET ends == { n \in 0..Len(Heap) : RefAfter(e.cause, n) = 0 }
  IN IF ends = {} THEN 0 - 1
     ELSE CHOOSE n \in ends : \A m \in ends : n <= m

\* Link i of e's cause chain, and whether the first n links are all Errors.
Link(e, i) == Heap[RefAfter(e.cause, i - 1)]
ErrorLinks(e, n) == \A i \in 1..n : InstanceOfError(Link(e, i))

\* Entry i of a causeChain describes link i of e's chain.
Describes(entry, link) ==
  /\ entry.name = link.name
  /\ entry.message = link.message
  /\ entry.stack = link.stack

\* C12: serializerError returns for every HttpError, a cyclic cause chain
\* (the error its own cause, or a longer cycle) and a chain of more than
\* MAX_CAUSE_DEPTH links included, and the causeChain it returns has at most
\* MAX_CAUSE_DEPTH entries.
C12_Terminates ==
  diagCall.called =>
    /\ diagCall.returned
    /\ Len(diagCall.record.causeChain) <= MAX_CAUSE_DEPTH

C12_Witness ==
  /\ diagCall.called /\ diagCall.returned
  /\ diagCall.error.name = "SelfError"
  /\ Deref(diagCall.error.cause) = diagCall.error
  /\ ChainLength(diagCall.error) < 0
  /\ Len(diagCall.record.causeChain) = MAX_CAUSE_DEPTH

\* C13: for a chain of n Errors, n < MAX_CAUSE_DEPTH (n = 0 included), the
\* causeChain has exactly n entries and entry i describes link i, from the
\* immediate cause to the root cause.
C13_ExactEntries ==
  diagCall.called =>
    LET n == ChainLength(diagCall.error)
    IN (n >= 0 /\ n < MAX_CAUSE_DEPTH /\ ErrorLinks(diagCall.error, n)) =>
         /\ diagCall.returned
         /\ Len(diagCall.record.causeChain) = n
         /\ \A i \in 1..n :
              Describes(diagCall.record.causeChain[i], Link(diagCall.error, i))

C13_Witness ==
  /\ diagCall.called
  /\ ChainLength(diagCall.error) = MAX_CAUSE_DEPTH - 1
  /\ ErrorLinks(diagCall.error, MAX_CAUSE_DEPTH - 1)
  /\ Len(diagCall.record.causeChain) = MAX_CAUSE_DEPTH - 1
  /\ diagCall.record.causeChain[1].message
       # diagCall.record.causeChain[2].message
  /\ diagCall.record.causeChain[MAX_CAUSE_DEPTH - 1].message
       = "cause-" \o ToString(MaxChain)

\* C14 as stated: a chain of exactly MAX_CAUSE_DEPTH Errors is truncated (the
\* causeChain does not hold all of its links), and no error is raised.
C14_TruncatedAtMax ==
  (/\ diagCall.called
   /\ ChainLength(diagCall.error) = MAX_CAUSE_DEPTH
   /\ ErrorLinks(diagCall.error, MAX_CAUSE_DEPTH)) =>
      /\ diagCall.returned
      /\ Len(diagCall.record.causeChain) < MAX_CAUSE_DEPTH

\* C14, amended: a chain of exactly MAX_CAUSE_DEPTH Errors is walked to its
\* root (MAX_CAUSE_DEPTH entries, the last one describing the root cause); a
\* chain of more links is truncated to its first MAX_CAUSE_DEPTH links; no
\* error is raised in either case.
C14_WalkedAtMax ==
  diagCall.called =>
    LET n == ChainLength(diagCall.error)
    IN (n >= MAX_CAUSE_DEPTH /\ ErrorLinks(diagCall.error, n)) =>
         /\ diagCall.returned
         /\ Len(diagCall.record.causeChain) = MAX_CAUSE_DEPTH
         /\ \A i \in 1..MAX_CAUSE_DEPTH :
              Describes(diagCall.record.causeChain[i], Link(diagCall.error, i))

C14_Witness ==
  /\ diagCall.called /\ diagCall.returned
  /\ ChainLength(diagCall.error) = MAX_CAUSE_DEPTH
  /\ Len(diagCall.record.causeChain) = MAX_CAUSE_DEPTH
  /\ diagCall.record.causeChain[MAX_CAUSE_DEPTH].message
       = "cause-" \o ToString(MaxChain)

\* Whether the code of e is one of the keys of table t.
IsKey(e, t) == ToPropertyKey(e.code) \in DOMAIN t

\* C15: when e.code is a key of the table, errorMapper returns a
\* MappedHttpError whose statusCode and responseMessage are those of the
\* table's entry for e.code, for string, numeric and symbol codes.
C15_MappedEntry ==
  (mapCall.called /\ IsKey(mapCall.error, mapCall.codeMapping)) =>
    /\ mapCall.result.cls = "MappedHttpError"
    /\ mapCall.result.statusCode =
         mapCall.codeMapping[ToPropertyKey(mapCall.error.code)].statusCode
    /\ mapCall.result.responseMessage =
         mapCall.codeMapping[ToPropertyKey(mapCall.error.code)].responseMessage

C15_Witness ==
  /\ mapCall.called /\ IsKey(mapCall.error, mapCall.codeMapping)
  /\ mapCall.error.code = [t |-> "number", v |-> 123]
  /\ [t |-> "symbol", v |-> "ERR_SYMBOL"] \in DOMAIN mapCall.codeMapping
  /\ mapCall.result.statusCode = 418
  /\ mapCall.result.responseMessage = "I'm a teapot"

\* C16: when e.code is not a key of the table, errorMapper returns an error
\* with statusCode 500 and responseMessage "Internal Server Error" and has
\* made one console.warn call that records the code.
C16_UnmappedGeneric ==
  (mapCall.called /\ ~IsKey(mapCall.error, mapCall.codeMapping)) =>
    /\ Len(mapCall.warns) = 1
    /\ mapCall.warns[1].message =
         "No HTTP mapping found for error code: " \o String(mapCall.error.code)
    /\ mapCall.result.responseMessage = "Internal Server Error"
    /\ mapCall.result.statusCode = 500

\* C17: in the mapped and in the unmapped branch the result has the name,
\* message, code, logLevel, meta and cause of the source error, and the call
\* leaves the source error and the table as they were.
C17_FieldsCopied ==
  mapCall.called =>
    /\ \A f \in {"name", "message", "code", "logLevel", "meta", "cause"} :
         mapCall.result[f] = mapCall.error[f]
    /\ mapCall.errorAfter = mapCall.error
    /\ mapCall.codeMappingAfter = mapCall.codeMapping

C17_Witness ==
  /\ mapCall.called /\ ~IsKey(mapCall.error, mapCall.codeMapping)
  /\ Len(mapCall.warns) = 1
  /\ mapCall.error.meta # Undefined /\ mapCall.error.cause # 0
  /\ mapCall.result.meta = mapCall.error.meta
  /\ mapCall.result.cause = mapCall.error.cause
  /\ mapCall.result.code = [t |-> "symbol", v |-> "ERR_OTHER"]

\* What the injected serializer returns for the raw error of the construction.
Serialized == Invoke(ivCall.serializer, ivCall.rawError)

\* C18: a construction of an InputValidationError has called the injected
\* serializer once, with the raw error, and its errors are the serializer's
\* in number and order, each with its messages unchanged, with the field
\* "unknown" where the entry had none and with the entry's field otherwise.
C18_Normalized ==
  ivCall.called =>
    /\ ivCall.serializerCalls = << ivCall.rawError >>
    /\ ivCall.error.name = Serialized.name
    /\ Len(ivCall.error.errors) = Len(Serialized.errors)
    /\ \A i \in 1..Len(Serialized.errors) :
         /\ ivCall.error.errors[i].messages = Serialized.errors[i].messages
         /\ DOMAIN ivCall.error.errors[i] = {"field", "messages"}
         /\ ivCall.error.errors[i].field =
              IF "field" \notin DOMAIN Serialized.errors[i]
                 \/ Serialized.errors[i].field = Undefined
              THEN "unknown" ELSE Serialized.errors[i].field

C18_Witness ==
  /\ ivCall.called /\ ivCall.serializerCalls = << ivCall.rawError >>
  /\ Len(Serialized.errors) = 2
  /\ "field" \notin DOMAIN Serialized.errors[1]
  /\ ivCall.error.errors[1].field = "unknown"
  /\ "field" \in DOMAIN Serialized.errors[2]
  /\ Serialized.errors[2].field = ""
  /\ ivCall.error.errors[2].field = ""
  /\ Len(ivCall.error.errors[2].messages) = 2

\* C19: the factory's chain is the HttpError strategy, the InputValidation
\* strategy and the fallback, in this order, all three with the factory's
\* logger or all three without one; the fallback accepts every value, so a
\* dispatch on this chain has run one strategy's handle and the dispatcher's
\* own no-match write has not been made.
C19_FactoryChain ==
  DefaultChain =>
    /\ [i \in DOMAIN strategies |-> strategies[i].kind] =
         << "HttpErrorHandlerStrategy", "InputValidationErrorHandlerStrategy",
            "FallbackErrorStrategy" >>
    /\ \A i, j \in DOMAIN strategies : strategies[i].logger = strategies[j].logger
    /\ \A e \in ThrownValues : canHandle(strategies[Len(strategies)], e)
    /\ \A r \in Requests :
         Dispatched(r) =>
           /\ Selected(err[r]) # 0
           /\ Len(handleCalls[r]) = 1
           /\ \A i \in DOMAIN jsonCalls[r] : jsonCalls[r][i] # FlatUnknownBody

C19_Witness ==
  \E r \in Requests :
    /\ DefaultChain /\ strategies[1].logger /\ Dispatched(r)
    /\ err[r].cls = "string"
    /\ handleCalls[r] = <<3>>
    /\ jsonCalls[r] = << WrappedUnknownBody >>

\* The strategy selected for request r is the HttpError strategy.
SelectedIsHttp(r) ==
  /\ Selected(err[r]) # 0
  /\ strategies[Selected(err[r])].kind = "HttpErrorHandlerStrategy"

\* C20: when the HttpError strategy has handled e, then with a logger one
\* log call has been made, on the method e.logLevel names, carrying the
\* diagnostic record of e, and without a logger no log call has been made
\* and serializerError has not been called; status and body are written in
\* both cases.
C20_LogsIffLogger ==
  \A r \in Requests :
    (Dispatched(r) /\ SelectedIsHttp(r)) =>
      /\ strategies[Selected(err[r])].logger =>
           /\ Len(logCalls[r]) = 1
           /\ logCalls[r][1].level = err[r].logLevel
           /\ logCalls[r][1].level \in LogLevel
           /\ logCalls[r][1].meta = serializerError(err[r])
           /\ logCalls[r][1].meta.topLevel.message = err[r].message
           /\ serializerErrorCalls[r] = << err[r] >>
      /\ ~strategies[Selected(err[r])].logger =>
           /\ logCalls[r] = <<>>
           /\ serializerErrorCalls[r] = <<>>
      /\ statusCalls[r] = << err[r].statusCode >>
      /\ jsonCalls[r] = << HttpErrorBody(err[r]) >>

C20_Witness ==
  \E r \in Requests :
    /\ Dispatched(r) /\ SelectedIsHttp(r)
    /\ strategies[Selected(err[r])].logger
    /\ Len(logCalls[r]) = 1 /\ logCalls[r][1].level = "warn"
    /\ Len(logCalls[r][1].meta.causeChain) = 2

\* The field of an issue: its path joined with dots, "general" for the empty
\* path.
FieldOf(issue) == IF issue.path = <<>> THEN "general" ELSE Join(issue.path)

\* The issues at which a field occurs for the first time, and the k-th of them.
FirstOccurrences(issues) ==
  { i \in DOMAIN issues : \A j \in 1..(i - 1) : FieldOf(issues[j]) # FieldOf(issues[i]) }

NthFirst(issues, k) ==
  CHOOSE i \in FirstOccurrences(issues) :
    Cardinality({ j \in FirstOccurrences(issues) : j <= i }) = k

\* The messages of the issues of field f, in issue order.
MessagesOf(issues, f) ==
  LET own == SelectSeq(issues, LAMBDA issue : FieldOf(issue) = f)
  IN [i \in 1..Len(own) |-> own[i].message]

RECURSIVE SumLen(_, _)
SumLen(errors, i) ==
  IF i > Len(errors) THEN 0 ELSE Len(errors[i].messages) + SumLen(errors, i + 1)

\* C21: zodErrorSerializer returns name "ValidationError" and one entry per
\* distinct field, in the order the fields first occur among the issues,
\* each with the messages of its issues in issue order; the messages are as
\* many as the issues.
C21_GroupedByField ==
  zodCall.called =>
    /\ ~zodCall.out.thrown
    /\ zodCall.out.value.name = "ValidationError"
    /\ Len(zodCall.out.value.errors)
         = Cardinality(FirstOccurrences(zodCall.error.issues))
    /\ \A k \in DOMAIN zodCall.out.value.errors :
         LET f == FieldOf(zodCall.error.issues[NthFirst(zodCall.error.issues, k)])
         IN /\ zodCall.out.value.errors[k].field = f
            /\ zodCall.out.value.errors[k].messages
                 = MessagesOf(zodCall.error.issues, f)
    /\ SumLen(zodCall.out.value.errors, 1) = Len(zodCall.error.issues)

\* The entries of the constructed error whose field is f.
EntriesOf(f) ==
  { i \in DOMAIN ivCall.error.errors : ivCall.error.errors[i].field = f }

\* C22: getFieldErrors(f) is the messages of the first entry whose field is
\* f, and empty when there is none; hasFieldError(f) is true exactly when
\* getFieldErrors(f) is not empty; getInvalidFields() is the field of every
\* entry, in entry order.
C22_FieldQueries ==
  fieldCall.called =>
    /\ EntriesOf(fieldCall.fieldName) = {} => fieldCall.getFieldErrors = <<>>
    /\ \A i \in EntriesOf(fieldCall.fieldName) :
         (\A j \in EntriesOf(fieldCall.fieldName) : i <= j) =>
           fieldCall.getFieldErrors = ivCall.error.errors[i].messages
    /\ fieldCall.hasFieldError <=> (fieldCall.getFieldErrors # <<>>)
    /\ Len(fieldCall.getInvalidFields) = Len(ivCall.error.errors)
    /\ \A i \in DOMAIN ivCall.error.errors :
         fieldCall.getInvalidFields[i] = ivCall.error.errors[i].field

\* Two entries of one field with different messages: the first one's are
\* returned.
C22_Witness ==
  /\ fieldCall.called /\ fieldCall.fieldName = "custom"
  /\ Cardinality(EntriesOf("custom")) = 2
  /\ ivCall.error.errors[1].messages # ivCall.error.errors[2].messages
  /\ fieldCall.getFieldErrors = ivCall.error.errors[1].messages
  /\ fieldCall.hasFieldError
  /\ fieldCall.getInvalidFields = << "custom", "custom" >>

\* What the sink of request r holds: the statuses and the bodies written.
Sink(r) == [status |-> statusCalls[r], json |-> jsonCalls[r]]

\* What a dispatch of e through the strategies writes when it runs alone.
Alone(e) ==
  [status |-> ErrorHandler_handle(strategies, e).status,
   json |-> ErrorHandler_handle(strategies, e).json]

FirstNonError(e) ==
  LET nonErrors == { p \in 1..Len(Heap) :
                       /\ RefAfter(e.cause, p - 1) # 0
                       /\ ~InstanceOfError(Link(e, p)) }
  IN IF nonErrors = {} THEN 0
     ELSE CHOOSE p \in nonErrors : \A q \in nonErrors : p <= q

\* C24: when link p of the chain is the first that is not an Error (p within
\* the depth bound), the causeChain describes links 1..p-1 and nothing else:
\* it has no entry for link p nor for any link after it.
C24_StopsAtNonError ==
  diagCall.called =>
    LET p == FirstNonError(diagCall.error)
    IN (p # 0 /\ p <= MAX_CAUSE_DEPTH) =>
         /\ diagCall.returned
         /\ Len(diagCall.record.causeChain) = p - 1
         /\ \A i \in 1..(p - 1) :
              Describes(diagCall.record.causeChain[i], Link(diagCall.error, i))

\* error -> Error -> plain object -> Error: one entry, for the first link.
C24_Witness ==
  /\ diagCall.called
  /\ FirstNonError(diagCall.error) = 2
  /\ ChainLength(diagCall.error) = 3
  /\ InstanceOfError(Link(diagCall.error, 3))
  /\ Len(diagCall.record.causeChain) = 1
  /\ diagCall.record.causeChain[1].message = "request failed"

\* C29: entry i of the causeChain has the name, message and stack of link i
\* and, of code, responseMessage and meta, exactly the ones link i has, with
\* the link's values.
C29_OptionalKeys ==
  diagCall.called =>
    \A i \in DOMAIN diagCall.record.causeChain :
      LET entry == diagCall.record.causeChain[i]
          link == Link(diagCall.error, i)
      IN /\ {"name", "message", "stack"} \subseteq DOMAIN entry
         /\ Describes(entry, link)
         /\ DOMAIN entry \ {"name", "message", "stack"}
              = DOMAIN link \cap {"code", "responseMessage", "meta"}
         /\ \A k \in DOMAIN entry : entry[k] = link[k]

\* A cause with code and meta but no responseMessage, then one with none of
\* the three.
C29_Witness ==
  /\ diagCall.called /\ Len(diagCall.record.causeChain) = 2
  /\ DOMAIN diagCall.record.causeChain[1]
       = {"name", "message", "stack", "code", "meta"}
  /\ diagCall.record.causeChain[1].code = "OUTER"
  /\ DOMAIN diagCall.record.causeChain[2] = {"name", "message", "stack"}

\* C28: serializerError and serializeResponse leave the input error and every
\* object of its cause chain as they were, and a second call of either on
\* the same error returns a record equal to the first.
C28_Pure ==
  diagCall.called =>
    /\ diagCall.record = serializerErrorOn(diagCall.error, Heap).record
    /\ diagCall.errorAfter = diagCall.error
    /\ diagCall.heapAfter = Heap
    /\ "again" \in DOMAIN diagCall =>
         /\ diagCall.again = diagCall.record
         /\ diagCall.clientAgain = diagCall.client
         /\ diagCall.errorAtEnd = diagCall.error
         /\ diagCall.heapAtEnd = Heap

C28_Witness ==
  /\ diagCall.called /\ "again" \in DOMAIN diagCall
  /\ diagCall.error.cause = 2
  /\ Len(diagCall.record.causeChain) = 2
  /\ diagCall.again = diagCall.record
  /\ diagCall.client = HttpErrorBody(diagCall.error)
  /\ diagCall.clientAgain = diagCall.client

\* The strategies of the given kind that stand after a fallback strategy.
ShadowedStrategies(kind) ==
  { j \in DOMAIN strategies :
      /\ strategies[j].kind = kind
      /\ \E i \in 1..(j - 1) : strategies[i].kind = "FallbackErrorStrategy" }

\* The specific strategy that recognises e, if any.
KindFor(e) ==
  IF InstanceOfHttpError(e) THEN "HttpErrorHandlerStrategy"
  ELSE IF InstanceOfInputValidationError(e)
       THEN "InputValidationErrorHandlerStrategy"
       ELSE "none"

Events(r) ==
  SelectSeq(trace[r], LAMBDA x : x \in {"log", "status", "json"})

\* C26: a dispatch through the factory's chain makes at most one logger
\* call (none without a logger), before the status is set; the status is set
\* exactly once, then the body is written exactly once, and nothing is logged
\* or written after the body.
C26_Ordered ==
  \A r \in Requests :
    (DefaultChain /\ Dispatched(r)) =>
      /\ Events(r) \in { <<"status", "json">>, <<"log", "status", "json">> }
      /\ ~strategies[1].logger => Events(r) = <<"status", "json">>
      /\ Len(logCalls[r]) <= 1
      /\ Len(statusCalls[r]) = 1 /\ Len(jsonCalls[r]) = 1

\* C27: the error errorMapper returns for e and a table, dispatched through
\* the factory's chain, is handled by the HttpError strategy and never by the
\* fallback; the body has the HttpError shape with the code and the name of
\* e; status and message are those of the table's entry for e.code when
\* there is one, and 500 with "Internal Server Error" when there is none.
C27_MapThenDispatch ==
  \A r \in Requests :
    (mapCall.called /\ DefaultChain /\ Dispatched(r)) =>
      LET e == mapCall.error
          t == mapCall.codeMapping
      IN /\ err[r] = mapCall.result
         /\ SelectedIsHttp(r) /\ ~SelectedIsFallback(r)
         /\ handleCalls[r] = <<1>>
         /\ Len(statusCalls[r]) = 1 /\ Len(jsonCalls[r]) = 1
         /\ DOMAIN jsonCalls[r][1] = {"errorType", "error"}
         /\ jsonCalls[r][1].errorType = "Server"
         /\ DOMAIN jsonCalls[r][1].error = {"message", "code", "name"}
         /\ jsonCalls[r][1].error.code = e.code
         /\ jsonCalls[r][1].error.name = e.name
         /\ jsonCalls[r][1].error.name # FlatUnknownBody.name
         /\ IF IsKey(e, t)
            THEN /\ jsonCalls[r][1].error.message =
                      t[ToPropertyKey(e.code)].responseMessage
                 /\ statusCalls[r][1] = t[ToPropertyKey(e.code)].statusCode
            ELSE /\ jsonCalls[r][1].error.message = "Internal Server Error"
                 /\ statusCalls[r][1] = 500

====
